---- MODULE Spec2Model ----
(***************************************************************************)
(* tomno: translation of a TOML workload descriptor (JobConfig) into an    *)
(* HCL job specification.  The model follows src/src/main.rs: the file is  *)
(* loaded, deserialized, four loops build the port, service, volume and    *)
(* task blocks, the body is assembled and rendered, and the text is        *)
(* printed by the single println! at the end of main.                      *)
(***************************************************************************)
EXTENDS Integers, Sequences, FiniteSets, TLC

VARIABLES args, file, buffer, job, pc, i,
          port_blocks, service_blocks, volume_blocks, task_blocks,
          body, stdout, error

vars == <<args, file, buffer, job, pc, i,
          port_blocks, service_blocks, volume_blocks, task_blocks,
          body, stdout, error>>

\* ------------------------------------------------------------------ bounds
MaxPorts == 2
MaxServices == 2
MaxVolumes == 2
MaxContainers == 2
MaxMounts == 2
MaxEnv == 2
MaxCPorts == 2

U16Max == 65535

SeqsUpTo(S, n) == UNION {[1..k -> S] : k \in 0..n}

\* ------------------------------------------------- hcl values and blocks
\* hcl::Value as a tagged record; every variant carries all payload fields
\* so that values of different types stay comparable.
HStr(s)  == [kind |-> "string",  i |-> 0, s |-> s,  b |-> FALSE, l |-> <<>>]
HInt(n)  == [kind |-> "integer", i |-> n, s |-> "", b |-> FALSE, l |-> <<>>]
HBool(x) == [kind |-> "bool",    i |-> 0, s |-> "", b |-> x,     l |-> <<>>]
HList(q) == [kind |-> "array",   i |-> 0, s |-> "", b |-> FALSE, l |-> q]

Attribute(k, v) == [key |-> k, val |-> v]

Block(t, labels, attrs, blocks) ==
    [type |-> t, labels |-> labels, attrs |-> attrs, blocks |-> blocks]

\* ---------------------------------------------------------- toml::Value
TInt(n) == [kind |-> "integer", i |-> n, s |-> ""]
TStr(s) == [kind |-> "string",  i |-> 0, s |-> s]
TOther(k, txt) == [kind |-> k, i |-> 0, s |-> txt]

is_integer(v) == v.kind = "integer"
is_str(v) == v.kind = "string"
as_integer(v) == v.i
as_str(v) == v.s

\* ------------------------------------------------- optional input fields
Given(x) == [present |-> TRUE, v |-> x]
OmittedStr == [present |-> FALSE, v |-> ""]
OmittedBool == [present |-> FALSE, v |-> FALSE]

\* ------------------------------------------------ serde deserialization
default_interval == "15s"

\* Mutant: the timeout default copied from the interval default.
default_timeout_copied == "15s"

default_timeout == "3s"

default_false == FALSE

\* struct ServiceCheck: interval and timeout carry serde defaults.
ServiceCheck(c) ==
    [check_type |-> c.type,
     interval |-> IF c.interval.present THEN c.interval.v ELSE default_interval,
     timeout |-> IF c.timeout.present THEN c.timeout.v ELSE default_timeout,
     path |-> c.path]

\* struct Service
Service(s) ==
    [name |-> s.name, port |-> s.port, tags |-> s.tags,
     check |-> ServiceCheck(s.check)]

\* struct Volume: accessMode is required, readOnly defaults to false.
Volume(v) ==
    [name |-> v.name,
     access_mode |-> v.accessMode.v,
     read_only |-> IF v.readOnly.present THEN v.readOnly.v ELSE default_false]

\* A document deserializes only when the fields without a default are
\* present and the u16 fields are in range.
Conforms(doc) ==
    /\ doc.general.count \in 0..U16Max
    /\ \A k \in DOMAIN doc.ports : doc.ports[k].to \in 0..U16Max
    /\ \A k \in DOMAIN doc.volumes : doc.volumes[k].accessMode.present

\* struct JobConfig, as produced by toml::from_str.
JobConfig(doc) ==
    [general |-> doc.general,
     ports |-> doc.ports,
     services |-> [k \in DOMAIN doc.services |-> Service(doc.services[k])],
     containers |-> doc.containers,
     volumes |-> [k \in DOMAIN doc.volumes |-> Volume(doc.volumes[k])]]

\* ------------------------------------------------------ translation rules
PanicValue == "panic: Error parsing!"

\* Mutant: an unknown code falls back to a default mode instead of panicking.
get_vol_access_mode_fallback(s) ==
    CASE s = "mnmw" -> "multi-node-multi-writer"
      [] s = "mnsw" -> "multi-node-single-writer"
      [] OTHER -> "single-node-writer"

get_vol_access_mode(s) ==
    CASE s = "mnmw" -> "multi-node-multi-writer"
      [] s = "mnsw" -> "multi-node-single-writer"
      [] OTHER -> PanicValue

PortBlock(port) ==
    Block("port", <<port.name>>, <<Attribute("to", HInt(port.to))>>, <<>>)

\* Mutant: the check is named after its type instead of the fixed literal.
CheckBlock_named(check) ==
    Block("check", <<>>,
          <<Attribute("type", HStr(check.check_type)),
            Attribute("path", HStr(check.path)),
            Attribute("name", HStr(check.check_type)),
            Attribute("interval", HStr(check.interval)),
            Attribute("timeout", HStr(check.timeout))>>,
          <<>>)

CheckBlock(check) ==
    Block("check", <<>>,
          <<Attribute("type", HStr(check.check_type)),
            Attribute("path", HStr(check.path)),
            Attribute("name", HStr("app_health")),
            Attribute("interval", HStr(check.interval)),
            Attribute("timeout", HStr(check.timeout))>>,
          <<>>)

ServiceBlock(svc) ==
    Block("service", <<>>,
          <<Attribute("name", HStr(svc.name)),
            Attribute("port", HStr(svc.port)),
            Attribute("tags", HList(svc.tags))>>,
          <<CheckBlock(svc.check)>>)

VolumeBlock(vol) ==
    Block("volume", <<vol.name>>,
          <<Attribute("type", HStr("csi")),
            Attribute("source", HStr(vol.name)),
            Attribute("access_mode", HStr(get_vol_access_mode(vol.access_mode))),
            Attribute("read_only", HBool(vol.read_only)),
            Attribute("attachment_mode", HStr("filesystem"))>>,
          <<>>)

VolumeMountBlock(vol) ==
    Block("volume_mount", <<>>,
          <<Attribute("volume", HStr(vol.volume)),
            Attribute("destination", HStr(vol.mountpoint))>>,
          <<>>)

\* Mutant: the mounts are collected in reverse order.
mounts_blocks_reversed(mounts) ==
    [k \in DOMAIN mounts |-> VolumeMountBlock(mounts[Len(mounts) + 1 - k])]

mounts_blocks(mounts) ==
    [k \in DOMAIN mounts |-> VolumeMountBlock(mounts[k])]

\* Mutant: a value of any other kind is emitted as a string.
EnvPush_stringified(e) ==
    IF is_integer(e.val) THEN <<Attribute(e.name, HInt(as_integer(e.val)))>>
    ELSE <<Attribute(e.name, HStr(as_str(e.val)))>>

\* One iteration of the env loop: what entry e appends to the vector.
EnvPush(e) ==
    IF is_integer(e.val) THEN <<Attribute(e.name, HInt(as_integer(e.val)))>>
    ELSE IF is_str(e.val) THEN <<Attribute(e.name, HStr(as_str(e.val)))>>
    ELSE <<>>

\* Mutant: the env loop keeps integer entries only.
RECURSIVE env_block_attributes_ints(_)
env_block_attributes_ints(env) ==
    IF env = <<>> THEN <<>>
    ELSE env_block_attributes_ints(SubSeq(env, 1, Len(env) - 1))
             \o (IF is_integer(env[Len(env)].val) THEN EnvPush(env[Len(env)]) ELSE <<>>)

RECURSIVE env_block_attributes(_)
env_block_attributes(env) ==
    IF env = <<>> THEN <<>>
    ELSE env_block_attributes(SubSeq(env, 1, Len(env) - 1)) \o EnvPush(env[Len(env)])

ConfigBlock(container) ==
    Block("config", <<>>,
          <<Attribute("image", HStr(container.image)),
            Attribute("ports", HList(container.ports))>>,
          <<>>)

RestartBlock ==
    Block("restart", <<>>,
          <<Attribute("attempts", HInt(3)), Attribute("delay", HStr("20s"))>>,
          <<>>)

EnvBlock(env) == Block("env", <<>>, env_block_attributes(env), <<>>)

TaskBlock(container) ==
    Block("task", <<container.name>>,
          <<Attribute("driver", HStr("docker"))>>,
          <<ConfigBlock(container)>> \o mounts_blocks(container.mounts)
              \o <<RestartBlock, EnvBlock(container.env)>>)

NetworkBlock(pb) == Block("network", <<>>, <<>>, pb)

\* Mutant: the volume blocks are never added to the group.
GroupBlock_noVolumes(general, pb, sb, vb, tb) ==
    Block("group", <<general.name>>,
          <<Attribute("count", HInt(general.count))>>,
          <<NetworkBlock(pb)>> \o sb \o tb)

\* Mutant: the network block is added after the other blocks.
GroupBlock_networkLast(general, pb, sb, vb, tb) ==
    Block("group", <<general.name>>,
          <<Attribute("count", HInt(general.count))>>,
          sb \o vb \o tb \o <<NetworkBlock(pb)>>)

GroupBlock(general, pb, sb, vb, tb) ==
    Block("group", <<general.name>>,
          <<Attribute("count", HInt(general.count))>>,
          <<NetworkBlock(pb)>> \o sb \o vb \o tb)

JobBlock(general, pb, sb, vb, tb) ==
    Block("job", <<general.name>>,
          <<Attribute("datacenters", HList(general.datacenters))>>,
          <<GroupBlock(general, pb, sb, vb, tb)>>)

\* Body::builder().add_block(job).build(): a body holding one structure.
Body(general, pb, sb, vb, tb) == <<JobBlock(general, pb, sb, vb, tb)>>

\* ---------------------------------------------------------- hcl::to_string
\* The rendered document as its sequence of tokens: a block opens with its
\* type and labels, lists its attributes, then its child blocks, and closes.
OpenTok(b) == [tok |-> "open", name |-> b.type, labels |-> b.labels, val |-> HStr("")]

AttrTok(a) == [tok |-> "attr", name |-> a.key, labels |-> <<>>, val |-> a.val]

CloseTok == [tok |-> "close", name |-> "", labels |-> <<>>, val |-> HStr("")]

RECURSIVE RenderBlock(_), RenderBlocks(_)
RenderBlock(b) ==
    <<OpenTok(b)>> \o [k \in DOMAIN b.attrs |-> AttrTok(b.attrs[k])]
        \o RenderBlocks(b.blocks) \o <<CloseTok>>

RenderBlocks(bs) ==
    IF bs = <<>> THEN <<>>
    ELSE RenderBlock(Head(bs)) \o RenderBlocks(Tail(bs))

to_string(b) == RenderBlocks(b)


\* ------------------------------------------------------------ input space
PortVals == {[name |-> "http", to |-> 8080], [name |-> "db", to |-> 5432]}

CheckOf(iv, tm) == [type |-> "http", interval |-> iv, timeout |-> tm, path |-> "/health"]

ServiceVals ==
    {[name |-> "web", port |-> "http", tags |-> <<"a", "b">>,
      check |-> CheckOf(OmittedStr, OmittedStr)],
     [name |-> "api", port |-> "ghost", tags |-> <<>>,
      check |-> CheckOf(Given("30s"), OmittedStr)],
     [name |-> "adm", port |-> "http", tags |-> <<"a">>,
      check |-> CheckOf(OmittedStr, Given("10s"))],
     [name |-> "web", port |-> "db", tags |-> <<>>,
      check |-> CheckOf(Given("15s"), Given("1s"))]}

VolumeVals ==
    {[name |-> "data", accessMode |-> Given("mnmw"), readOnly |-> OmittedBool],
     [name |-> "logs", accessMode |-> Given("mnsw"), readOnly |-> Given(TRUE)],
     [name |-> "tmp",  accessMode |-> Given("rwx"),  readOnly |-> Given(FALSE)]}

MountVals ==
    {[volume |-> "data", mountpoint |-> "/data"],
     [volume |-> "logs", mountpoint |-> "/var/log"]}

EnvVals ==
    {[name |-> "PORT",  val |-> TInt(8080)],
     [name |-> "STAGE", val |-> TStr("prod")],
     [name |-> "DEBUG", val |-> TOther("boolean", "true")],
     [name |-> "RATIO", val |-> TOther("float", "1.5")]}

CPortVals == {"http", "ghost"}

ContainerOf(n, ps, ms, es) ==
    [name |-> n, image |-> "nginx:1", ports |-> ps, mounts |-> ms, env |-> es]

\* A few representative containers for the multi-container documents.
ContainerVals ==
    {ContainerOf("app", <<>>, <<>>, <<>>),
     ContainerOf("app", <<"http">>, <<[volume |-> "data", mountpoint |-> "/data"]>>,
                 <<[name |-> "PORT", val |-> TInt(8080)]>>),
     ContainerOf("side", <<"ghost", "http">>, <<>>,
                 <<[name |-> "DEBUG", val |-> TOther("boolean", "true")],
                   [name |-> "STAGE", val |-> TStr("prod")]>>)}

GeneralOf(c, dcs) == [name |-> "web", count |-> c, datacenters |-> dcs]

DocOf(g, ps, ss, vs, cs) ==
    [general |-> g, ports |-> ps, services |-> ss, volumes |-> vs, containers |-> cs]

BaseGeneral == GeneralOf(2, <<"dc1">>)

\* Documents varying one section at a time over all sequences up to its bound.
GeneralDocs ==
    {DocOf(GeneralOf(c, dcs), <<[name |-> "http", to |-> 8080]>>, <<>>, <<>>, <<>>) :
        c \in {0, 2}, dcs \in {<<>>, <<"dc1">>, <<"dc1", "dc2">>}}

PortDocs ==
    {DocOf(BaseGeneral, ps, <<>>, <<>>, <<>>) : ps \in SeqsUpTo(PortVals, MaxPorts)}

ServiceDocs ==
    {DocOf(BaseGeneral, <<>>, ss, <<>>, <<>>) : ss \in SeqsUpTo(ServiceVals, MaxServices)}

VolumeDocs ==
    {DocOf(BaseGeneral, <<>>, <<>>, vs, <<>>) : vs \in SeqsUpTo(VolumeVals, MaxVolumes)}

ContainerDocs ==
    {DocOf(BaseGeneral, <<>>, <<>>, <<>>, cs) : cs \in SeqsUpTo(ContainerVals, MaxContainers)}

TaskDocs ==
    {DocOf(BaseGeneral, <<>>, <<>>, <<>>, <<ContainerOf("app", ps, ms, es)>>) :
        ps \in SeqsUpTo(CPortVals, MaxCPorts),
        ms \in SeqsUpTo(MountVals, MaxMounts),
        es \in SeqsUpTo(EnvVals, MaxEnv)}

\* Documents combining the sections.
MixedDocs ==
    {DocOf(GeneralOf(1, dcs), ps, ss, vs, cs) :
        dcs \in {<<>>, <<"dc1">>},
        ps \in SeqsUpTo({[name |-> "http", to |-> 8080]}, MaxPorts),
        ss \in SeqsUpTo({[name |-> "api", port |-> "ghost", tags |-> <<>>,
                          check |-> CheckOf(Given("30s"), OmittedStr)]}, 1),
        vs \in SeqsUpTo({[name |-> "data", accessMode |-> Given("mnmw"),
                          readOnly |-> OmittedBool],
                         [name |-> "tmp", accessMode |-> Given("rwx"),
                          readOnly |-> Given(FALSE)]}, MaxVolumes),
        cs \in SeqsUpTo({ContainerOf("side", <<"ghost", "http">>, <<>>,
                          <<[name |-> "DEBUG", val |-> TOther("boolean", "true")],
                            [name |-> "STAGE", val |-> TStr("prod")]>>)}, 1)}

\* Documents that toml::from_str rejects: a volume without accessMode, a port
\* target or a count outside u16.
BadDocs ==
    {DocOf(BaseGeneral, <<>>, <<>>,
           <<[name |-> "data", accessMode |-> OmittedStr, readOnly |-> OmittedBool]>>, <<>>),
     DocOf(BaseGeneral, <<[name |-> "http", to |-> 70000]>>, <<>>, <<>>, <<>>),
     DocOf(GeneralOf(-1, <<"dc1">>), <<>>, <<>>, <<>>, <<>>)}

\* One document with every unvalidated irregularity at once: duplicate port
\* names, references to undeclared ports, no datacenter, a boolean env value.
PermissiveDoc ==
    DocOf(GeneralOf(2, <<>>),
          <<[name |-> "http", to |-> 8080], [name |-> "http", to |-> 8080]>>,
          <<[name |-> "api", port |-> "ghost", tags |-> <<>>,
             check |-> CheckOf(Given("30s"), OmittedStr)]>>,
          <<[name |-> "data", accessMode |-> Given("mnmw"), readOnly |-> OmittedBool]>>,
          <<ContainerOf("side", <<"ghost", "http">>, <<>>,
                        <<[name |-> "DEBUG", val |-> TOther("boolean", "true")],
                          [name |-> "STAGE", val |-> TStr("prod")]>>)>>)

GoodDocs ==
    {PermissiveDoc} \cup GeneralDocs \cup PortDocs \cup ServiceDocs \cup VolumeDocs
        \cup ContainerDocs \cup TaskDocs \cup MixedDocs

Docs == GoodDocs \cup BadDocs

BaseDoc == DocOf(BaseGeneral, <<[name |-> "http", to |-> 8080]>>, <<>>, <<>>, <<>>)

FileOf(e, u, t, d) == [exists |-> e, utf8 |-> u, toml |-> t, doc |-> d]

\* The file named on the command line: absent, not UTF-8, not TOML, or a
\* TOML document.
Files ==
    {FileOf(TRUE, TRUE, TRUE, d) : d \in Docs}
        \cup {FileOf(FALSE, TRUE, TRUE, BaseDoc),
              FileOf(TRUE, FALSE, TRUE, BaseDoc),
              FileOf(TRUE, TRUE, FALSE, BaseDoc)}

NoDoc == DocOf(GeneralOf(0, <<>>), <<>>, <<>>, <<>>, <<>>)

NoFile == FileOf(FALSE, FALSE, FALSE, NoDoc)

NoJob == JobConfig(NoDoc)

UsageLine == <<[tok |-> "text", name |-> "Usage: nodock <path>", labels |-> <<>>, val |-> HStr("")]>>

\* --------------------------------------------------------------- behaviour
Init ==
    /\ \/ args = <<"nodock">> /\ file = FileOf(TRUE, TRUE, TRUE, BaseDoc)
       \/ args = <<"nodock", "job.toml">> /\ file \in Files
    /\ buffer = NoFile
    /\ job = NoJob
    /\ pc = "start"
    /\ i = 1
    /\ port_blocks = <<>>
    /\ service_blocks = <<>>
    /\ volume_blocks = <<>>
    /\ task_blocks = <<>>
    /\ body = <<>>
    /\ stdout = <<>>
    /\ error = "none"

Fail(msg) ==
    /\ pc' = "failed"
    /\ error' = msg

\* main, lines 107-111: no path argument.
Usage ==
    /\ pc = "start"
    /\ Len(args) <= 1
    /\ stdout' = <<UsageLine>>
    /\ pc' = "done"
    /\ UNCHANGED <<args, file, buffer, job, i, port_blocks, service_blocks,
                   volume_blocks, task_blocks, body, error>>

\* File::open(..).expect("no file found")
OpenFail ==
    /\ pc = "start"
    /\ Len(args) > 1
    /\ ~file.exists
    /\ Fail("no file found")
    /\ UNCHANGED <<args, file, buffer, job, i, port_blocks, service_blocks,
                   volume_blocks, task_blocks, body, stdout>>

\* main, lines 113-116: the file is read into the buffer.
Load ==
    /\ pc = "start"
    /\ Len(args) > 1
    /\ file.exists
    /\ buffer' = file
    /\ pc' = "parse"
    /\ UNCHANGED <<args, file, job, i, port_blocks, service_blocks,
                   volume_blocks, task_blocks, body, stdout, error>>

\* String::from_utf8(buffer)? fails.
Utf8Fail ==
    /\ pc = "parse"
    /\ ~buffer.utf8
    /\ Fail("FromUtf8Error")
    /\ UNCHANGED <<args, file, buffer, job, i, port_blocks, service_blocks,
                   volume_blocks, task_blocks, body, stdout>>

\* toml::from_str(..)? fails.
ParseFail ==
    /\ pc = "parse"
    /\ buffer.utf8
    /\ ~(buffer.toml /\ Conforms(buffer.doc))
    /\ Fail("toml::de::Error")
    /\ UNCHANGED <<args, file, buffer, job, i, port_blocks, service_blocks,
                   volume_blocks, task_blocks, body, stdout>>

\* let job: JobConfig = toml::from_str(..)?
Parse ==
    /\ pc = "parse"
    /\ buffer.utf8
    /\ buffer.toml /\ Conforms(buffer.doc)
    /\ job' = JobConfig(buffer.doc)
    /\ pc' = "ports"
    /\ i' = 1
    /\ UNCHANGED <<args, file, buffer, port_blocks, service_blocks,
                   volume_blocks, task_blocks, body, stdout, error>>

\* Mutant: every port block is printed as soon as it is built.
ForPort_streaming ==
    /\ pc = "ports"
    /\ IF i <= Len(job.ports)
       THEN /\ port_blocks' = Append(port_blocks, PortBlock(job.ports[i]))
            /\ stdout' = Append(stdout, to_string(<<PortBlock(job.ports[i])>>))
            /\ i' = i + 1
            /\ pc' = pc
       ELSE /\ pc' = "services"
            /\ i' = 1
            /\ UNCHANGED <<port_blocks, stdout>>
    /\ UNCHANGED <<args, file, buffer, job, service_blocks,
                   volume_blocks, task_blocks, body, error>>

\* for port in job.ports
ForPort ==
    /\ pc = "ports"
    /\ IF i <= Len(job.ports)
       THEN /\ port_blocks' = Append(port_blocks, PortBlock(job.ports[i]))
            /\ i' = i + 1
            /\ pc' = pc
       ELSE /\ pc' = "services"
            /\ i' = 1
            /\ UNCHANGED port_blocks
    /\ UNCHANGED <<args, file, buffer, job, service_blocks,
                   volume_blocks, task_blocks, body, stdout, error>>

\* Mutant: a service naming an undeclared port aborts the translation.
ForService_validating ==
    /\ pc = "services"
    /\ IF i <= Len(job.services)
       THEN IF \E k \in DOMAIN job.ports : job.ports[k].name = job.services[i].port
            THEN /\ service_blocks' = Append(service_blocks, ServiceBlock(job.services[i]))
                 /\ i' = i + 1
                 /\ pc' = pc
                 /\ UNCHANGED error
            ELSE /\ Fail("unknown port")
                 /\ UNCHANGED <<i, service_blocks>>
       ELSE /\ pc' = "volumes"
            /\ i' = 1
            /\ UNCHANGED <<service_blocks, error>>
    /\ UNCHANGED <<args, file, buffer, job, port_blocks,
                   volume_blocks, task_blocks, body, stdout>>

\* for svc in job.services
ForService ==
    /\ pc = "services"
    /\ IF i <= Len(job.services)
       THEN /\ service_blocks' = Append(service_blocks, ServiceBlock(job.services[i]))
            /\ i' = i + 1
            /\ pc' = pc
       ELSE /\ pc' = "volumes"
            /\ i' = 1
            /\ UNCHANGED service_blocks
    /\ UNCHANGED <<args, file, buffer, job, port_blocks,
                   volume_blocks, task_blocks, body, stdout, error>>

\* for vol in job.volumes, when get_vol_access_mode returns
ForVolume ==
    /\ pc = "volumes"
    /\ IF i <= Len(job.volumes)
       THEN /\ get_vol_access_mode(job.volumes[i].access_mode) # PanicValue
            /\ volume_blocks' = Append(volume_blocks, VolumeBlock(job.volumes[i]))
            /\ i' = i + 1
            /\ pc' = pc
       ELSE /\ pc' = "containers"
            /\ i' = 1
            /\ UNCHANGED volume_blocks
    /\ UNCHANGED <<args, file, buffer, job, port_blocks,
                   service_blocks, task_blocks, body, stdout, error>>

\* for vol in job.volumes, when get_vol_access_mode panics
VolumePanic ==
    /\ pc = "volumes"
    /\ i <= Len(job.volumes)
    /\ get_vol_access_mode(job.volumes[i].access_mode) = PanicValue
    /\ Fail("Error parsing!")
    /\ UNCHANGED <<args, file, buffer, job, i, port_blocks, service_blocks,
                   volume_blocks, task_blocks, body, stdout>>

\* for container in job.containers
ForContainer ==
    /\ pc = "containers"
    /\ IF i <= Len(job.containers)
       THEN /\ task_blocks' = Append(task_blocks, TaskBlock(job.containers[i]))
            /\ i' = i + 1
            /\ pc' = pc
       ELSE /\ pc' = "body"
            /\ i' = 1
            /\ UNCHANGED task_blocks
    /\ UNCHANGED <<args, file, buffer, job, port_blocks,
                   service_blocks, volume_blocks, body, stdout, error>>

\* let body = Body::builder()...build()
BuildBody ==
    /\ pc = "body"
    /\ body' = Body(job.general, port_blocks, service_blocks, volume_blocks, task_blocks)
    /\ pc' = "render"
    /\ UNCHANGED <<args, file, buffer, job, i, port_blocks, service_blocks,
                   volume_blocks, task_blocks, stdout, error>>

\* hcl::to_string(&body)? returns an error.
RenderFail ==
    /\ pc = "render"
    /\ Fail("hcl::Error")
    /\ UNCHANGED <<args, file, buffer, job, i, port_blocks, service_blocks,
                   volume_blocks, task_blocks, body, stdout>>

\* println!("{}", hcl::to_string(&body)?)
Emit ==
    /\ pc = "render"
    /\ stdout' = <<to_string(body)>>
    /\ pc' = "done"
    /\ UNCHANGED <<args, file, buffer, job, i, port_blocks, service_blocks,
                   volume_blocks, task_blocks, body, error>>

Next ==
    \/ Usage
    \/ OpenFail
    \/ Load
    \/ Utf8Fail
    \/ ParseFail
    \/ Parse
    \/ ForPort
    \/ ForService
    \/ ForVolume
    \/ VolumePanic
    \/ ForContainer
    \/ BuildBody
    \/ RenderFail
    \/ Emit

Spec == Init /\ [][Next]_vars


\* The whole translation of a parsed job as one function (main, 120-233).
Tree(j) ==
    Body(j.general,
         [k \in DOMAIN j.ports |-> PortBlock(j.ports[k])],
         [k \in DOMAIN j.services |-> ServiceBlock(j.services[k])],
         [k \in DOMAIN j.volumes |-> VolumeBlock(j.volumes[k])],
         [k \in DOMAIN j.containers |-> TaskBlock(j.containers[k])])

\* ------------------------------------------------------ reading the tree
ChildrenOf(b, t) == SelectSeq(b.blocks, LAMBDA x : x.type = t)

HasAttr(b, k, v) == \E n \in DOMAIN b.attrs : b.attrs[n] = Attribute(k, v)

Keys(b) == [n \in DOMAIN b.attrs |-> b.attrs[n].key]

Types(bs) == [n \in DOMAIN bs |-> bs[n].type]

RECURSIVE Descendants(_)
Descendants(b) ==
    {b} \cup UNION {Descendants(b.blocks[n]) : n \in DOMAIN b.blocks}

Recognised(code) == code \in {"mnmw", "mnsw"}

AllRecognised(j) == \A k \in DOMAIN j.volumes : Recognised(j.volumes[k].access_mode)

Built == pc \in {"render", "done"} /\ body # <<>>

TheJob == body[1]

TheGroup == TheJob.blocks[1]

TheNetwork == TheGroup.blocks[1]

TranslationFailed ==
    /\ pc = "failed"
    /\ error \notin {"no file found", "FromUtf8Error", "toml::de::Error", "hcl::Error"}

\* The assembled body is the translation of the parsed job.
BodyIsTree == Built => body = Tree(job)

TypeOK ==
    /\ pc \in {"start", "parse", "ports", "services", "volumes", "containers",
               "body", "render", "done", "failed"}
    /\ i \in 1..(Len(job.ports) + Len(job.services) + Len(job.volumes)
                  + Len(job.containers) + 1)
    /\ (error = "none") = (pc # "failed")


\* ------------------------------------------------------------- properties
BadAt(j) == {k \in DOMAIN j.volumes : ~Recognised(j.volumes[k].access_mode)}

ModeOk(vol, vb) ==
    /\ vol.access_mode = "mnmw" =>
           HasAttr(vb, "access_mode", HStr("multi-node-multi-writer"))
    /\ vol.access_mode = "mnsw" =>
           HasAttr(vb, "access_mode", HStr("multi-node-single-writer"))
    /\ Recognised(vol.access_mode)

\* C1: every volume block carries access_mode "multi-node-multi-writer" for
\* the code "mnmw" and "multi-node-single-writer" for "mnsw"; a volume with
\* any other code gets no block: the run panics at that volume and never
\* reaches the later stages.
C1_AccessMode ==
    /\ \A k \in DOMAIN volume_blocks : ModeOk(job.volumes[k], volume_blocks[k])
    /\ Built =>
         /\ Len(ChildrenOf(TheGroup, "volume")) = Len(job.volumes)
         /\ \A k \in DOMAIN job.volumes :
                ModeOk(job.volumes[k], ChildrenOf(TheGroup, "volume")[k])
    /\ BadAt(job) # {} =>
         /\ pc \notin {"containers", "body", "render", "done"}
         /\ body = <<>>
         /\ \A k \in BadAt(job) : Len(volume_blocks) < k
    /\ (pc = "volumes" /\ i \in BadAt(job)) =>
         (ENABLED VolumePanic) /\ ~(ENABLED ForVolume)

\* A run that translated "mnmw" and then panicked on the next volume.
C1_Witness ==
    /\ error = "Error parsing!"
    /\ Len(volume_blocks) = 1
    /\ Len(job.volumes) = 2
    /\ job.volumes[1].access_mode = "mnmw"
    /\ HasAttr(volume_blocks[1], "access_mode", HStr("multi-node-multi-writer"))
    /\ job.volumes[2].access_mode = "rwx"

\* C2: a run that ends in an error has printed nothing; the document is
\* printed in one step, after the body has been assembled and rendered.
C2_NoPartialOutput ==
    /\ error # "none" => stdout = <<>>
    /\ pc = "failed" => stdout = <<>>
    /\ (stdout # <<>> /\ Len(args) > 1) =>
         /\ pc = "done"
         /\ body = Tree(job)
         /\ stdout = <<to_string(body)>>

\* The panic strikes after port and volume blocks have been built.
C2_Witness ==
    /\ error = "Error parsing!"
    /\ port_blocks # <<>>
    /\ volume_blocks # <<>>
    /\ stdout = <<>>

PortNames(j) == {j.ports[k].name : k \in DOMAIN j.ports}

\* C3: translation fails only on an unrecognised access-mode code: a failure
\* of the translation stage implies such a volume, and when every code is
\* recognised each translation stage can take its next step and none can
\* panic; undeclared port references are copied to the tree unchanged.
C3_OnlyFailure ==
    /\ TranslationFailed => BadAt(job) # {}
    /\ (pc \in {"ports", "services", "volumes", "containers", "body"}
            /\ AllRecognised(job)) =>
         /\ ENABLED (ForPort \/ ForService \/ ForVolume \/ ForContainer \/ BuildBody)
         /\ ~(ENABLED VolumePanic)
    /\ Built =>
         /\ \A k \in DOMAIN job.services :
                HasAttr(ChildrenOf(TheGroup, "service")[k], "port",
                        HStr(job.services[k].port))
         /\ \A k \in DOMAIN job.containers :
                HasAttr(ChildrenOf(TheGroup, "task")[k].blocks[1], "ports",
                        HList(job.containers[k].ports))

\* A tree was built from a job with duplicate port names, undeclared port
\* references, no datacenter and a boolean env value.
C3_Witness ==
    /\ Built
    /\ job.general.datacenters = <<>>
    /\ Len(job.ports) = 2 /\ job.ports[1].name = job.ports[2].name
    /\ \E k \in DOMAIN job.services : job.services[k].port \notin PortNames(job)
    /\ \E k \in DOMAIN job.containers :
          /\ \E n \in DOMAIN job.containers[k].ports :
                 job.containers[k].ports[n] \notin PortNames(job)
          /\ \E n \in DOMAIN job.containers[k].env :
                 job.containers[k].env[n].val.kind = "boolean"

\* C4: the network block has len(ports) port children; the group has
\* len(services) service, len(volumes) volume and len(containers) task
\* children.
C4_Cardinality ==
    Built =>
        /\ Len(ChildrenOf(TheNetwork, "port")) = Len(job.ports)
        /\ Len(TheNetwork.blocks) = Len(job.ports)
        /\ Len(ChildrenOf(TheGroup, "service")) = Len(job.services)
        /\ Len(ChildrenOf(TheGroup, "volume")) = Len(job.volumes)
        /\ Len(ChildrenOf(TheGroup, "task")) = Len(job.containers)

C4_Witness ==
    /\ Built
    /\ Len(job.ports) = 2
    /\ Len(job.services) = 1
    /\ Len(job.volumes) = 2
    /\ Len(job.containers) = 1
    /\ Len(ChildrenOf(TheGroup, "volume")) = 2

Repeat(x, n) == [k \in 1..n |-> x]

\* C5: the body is one job block labelled general.name with the attribute
\* datacenters and one child, the group, labelled likewise with the
\* attribute count; the group holds the network block, then the service,
\* volume and task blocks, each kind in input order, and nothing else.
C5_Assembly ==
    Built =>
        /\ Len(body) = 1
        /\ TheJob.type = "job"
        /\ TheJob.labels = <<job.general.name>>
        /\ TheJob.attrs = <<Attribute("datacenters", HList(job.general.datacenters))>>
        /\ Len(TheJob.blocks) = 1
        /\ TheGroup.type = "group"
        /\ TheGroup.labels = <<job.general.name>>
        /\ TheGroup.attrs = <<Attribute("count", HInt(job.general.count))>>
        /\ Types(TheGroup.blocks) =
               <<"network">> \o Repeat("service", Len(job.services))
                   \o Repeat("volume", Len(job.volumes))
                   \o Repeat("task", Len(job.containers))
        /\ TheNetwork.labels = <<>> /\ TheNetwork.attrs = <<>>
        /\ Types(TheNetwork.blocks) = Repeat("port", Len(job.ports))
        /\ \A k \in DOMAIN job.ports :
               /\ TheNetwork.blocks[k].labels = <<job.ports[k].name>>
               /\ TheNetwork.blocks[k].attrs = <<Attribute("to", HInt(job.ports[k].to))>>
        /\ \A k \in DOMAIN job.services :
               HasAttr(TheGroup.blocks[1 + k], "name", HStr(job.services[k].name))
        /\ \A k \in DOMAIN job.volumes :
               TheGroup.blocks[1 + Len(job.services) + k].labels
                   = <<job.volumes[k].name>>
        /\ \A k \in DOMAIN job.containers :
               TheGroup.blocks[1 + Len(job.services) + Len(job.volumes) + k].labels
                   = <<job.containers[k].name>>

\* A tree with two different ports, two different volumes and a service.
C5_Witness ==
    /\ Built
    /\ Len(job.ports) = 2 /\ job.ports[1] # job.ports[2]
    /\ TheNetwork.blocks[1].labels # TheNetwork.blocks[2].labels

\* The spec's end-to-end example: one port, nothing else.
C5_Example ==
    (Built /\ buffer.doc = BaseDoc) =>
        body = <<Block("job", <<"web">>,
                  <<Attribute("datacenters", HList(<<"dc1">>))>>,
                  <<Block("group", <<"web">>, <<Attribute("count", HInt(2))>>,
                     <<Block("network", <<>>, <<>>,
                        <<Block("port", <<"http">>,
                                <<Attribute("to", HInt(8080))>>, <<>>)>>)>>)>>)>>


TaskOf(k) == ChildrenOf(TheGroup, "task")[k]

EnvOf(k) == TaskOf(k).blocks[Len(TaskOf(k).blocks)]

Kept(env) == SelectSeq(env, LAMBDA e : e.val.kind \in {"integer", "string"})

\* C6: the env block of a container holds one attribute per env entry whose
\* value is an integer or a string, typed as the value and named as the
\* entry, in input order; entries of any other kind yield no attribute and
\* no error.
C6_EnvTyping ==
    /\ Built =>
         \A k \in DOMAIN job.containers :
            LET env == job.containers[k].env
                kept == Kept(env)
                out == EnvOf(k).attrs
            IN /\ EnvOf(k).type = "env"
               /\ Len(out) = Len(kept)
               /\ \A n \in DOMAIN kept :
                     /\ out[n].key = kept[n].name
                     /\ kept[n].val.kind = "integer" => out[n].val = HInt(kept[n].val.i)
                     /\ kept[n].val.kind = "string" => out[n].val = HStr(kept[n].val.s)
    /\ (pc = "containers" /\ i <= Len(job.containers)) => ENABLED ForContainer
    /\ TranslationFailed => pc # "containers"

\* A string entry before an integer entry, both emitted in that order.
C6_Witness ==
    /\ Built
    /\ Len(job.containers) = 1
    /\ Len(job.containers[1].env) = 2
    /\ job.containers[1].env[1].val.kind = "string"
    /\ job.containers[1].env[2].val.kind = "integer"
    /\ Len(EnvOf(1).attrs) = 2
    /\ EnvOf(1).attrs[1].val.kind = "string"

\* A float entry is dropped and the integer entry after it is kept.
C6_WitnessDropped ==
    /\ Built
    /\ Len(job.containers) = 1
    /\ Len(job.containers[1].env) = 2
    /\ job.containers[1].env[1].val.kind = "float"
    /\ job.containers[1].env[2].val.kind = "integer"
    /\ Len(EnvOf(1).attrs) = 1

RECURSIVE Shape(_)
Shape(b) ==
    [type |-> b.type, attrs |-> Len(b.attrs),
     blocks |-> [n \in DOMAIN b.blocks |-> Shape(b.blocks[n])]]

BodyShape(bd) == [n \in DOMAIN bd |-> Shape(bd[n])]

\* The sequence lengths of a job.
Lens(j) ==
    [ports |-> Len(j.ports), services |-> Len(j.services),
     volumes |-> Len(j.volumes),
     containers |-> [k \in DOMAIN j.containers |->
                       [ports |-> Len(j.containers[k].ports),
                        mounts |-> Len(j.containers[k].mounts),
                        env |-> Len(j.containers[k].env)]]]

\* The same, counting of each env sequence only the integer and string entries.
LensKept(j) ==
    [ports |-> Len(j.ports), services |-> Len(j.services),
     volumes |-> Len(j.volumes),
     containers |-> [k \in DOMAIN j.containers |->
                       [ports |-> Len(j.containers[k].ports),
                        mounts |-> Len(j.containers[k].mounts),
                        env |-> Len(Kept(j.containers[k].env))]]]

\* Every job of the input space on which translation succeeds.
GoodJobs == {j \in {JobConfig(d) : d \in GoodDocs} : AllRecognised(j)}

ShapeTable ==
    {[lens |-> Lens(j), kept |-> LensKept(j), shape |-> BodyShape(Tree(j))] :
        j \in GoodJobs}

\* C7 as stated: a job with the same sequence lengths as the translated one
\* yields a tree of the same shape.
C7_ShapeByLengths ==
    Built => \A p \in ShapeTable : p.lens = Lens(job) => p.shape = BodyShape(body)

\* C7 amended: a job with the same sequence lengths, counting of each env
\* sequence only the integer and string entries, yields a tree of the same
\* shape.
C7_ShapeByKeptLengths ==
    Built => \A p \in ShapeTable : p.kept = LensKept(job) => p.shape = BodyShape(body)

\* Two env entries of which one is dropped: another job has the same kept
\* length and different values.
C7_Witness ==
    /\ Built
    /\ Len(job.containers) = 1
    /\ Len(job.containers[1].env) = 2
    /\ Len(Kept(job.containers[1].env)) = 1
    /\ \E j \in GoodJobs : j # job /\ LensKept(j) = LensKept(job) /\ Lens(j) # Lens(job)

AllBlocks == UNION {Descendants(body[n]) : n \in DOMAIN body}

\* C8: every task block has driver = "docker", every restart block exactly
\* attempts = 3 and delay = "20s", every volume block type = "csi" and
\* attachment_mode = "filesystem", every check block name = "app_health".
C8_FixedLiterals ==
    \A b \in AllBlocks \cup {task_blocks[n] : n \in DOMAIN task_blocks}
               \cup {volume_blocks[n] : n \in DOMAIN volume_blocks}
               \cup UNION {Descendants(service_blocks[n]) : n \in DOMAIN service_blocks} :
        /\ b.type = "task" =>
              /\ b.attrs = <<Attribute("driver", HStr("docker"))>>
              /\ \A r \in {b.blocks[n] : n \in DOMAIN b.blocks} :
                    r.type = "restart" =>
                        r.attrs = <<Attribute("attempts", HInt(3)),
                                    Attribute("delay", HStr("20s"))>>
        /\ b.type = "restart" =>
              b.attrs = <<Attribute("attempts", HInt(3)), Attribute("delay", HStr("20s"))>>
        /\ b.type = "volume" =>
              /\ HasAttr(b, "type", HStr("csi"))
              /\ HasAttr(b, "attachment_mode", HStr("filesystem"))
        /\ b.type = "check" =>
              /\ HasAttr(b, "name", HStr("app_health"))
              /\ Cardinality({n \in DOMAIN b.attrs : b.attrs[n].key = "name"}) = 1

\* A tree holding a task, a restart, a volume and a check block.
C8_Witness ==
    /\ Built
    /\ \A t \in {"task", "restart", "volume", "check"} :
          \E b \in AllBlocks : b.type = t

\* C9: the check block has interval = "15s" when the input omits interval
\* and timeout = "3s" when it omits timeout, each independently; a value
\* given in the input is copied; a volume that omits readOnly has
\* read_only = false.
C9_Defaults ==
    Built =>
        /\ \A k \in DOMAIN buffer.doc.services :
              LET given == buffer.doc.services[k].check
                  out == ChildrenOf(TheGroup, "service")[k].blocks[1]
              IN /\ out.type = "check"
                 /\ HasAttr(out, "interval",
                       HStr(IF given.interval.present THEN given.interval.v ELSE "15s"))
                 /\ HasAttr(out, "timeout",
                       HStr(IF given.timeout.present THEN given.timeout.v ELSE "3s"))
        /\ \A k \in DOMAIN buffer.doc.volumes :
              LET given == buffer.doc.volumes[k].readOnly
                  out == ChildrenOf(TheGroup, "volume")[k]
              IN HasAttr(out, "read_only",
                         HBool(IF given.present THEN given.v ELSE FALSE))

\* A service giving interval and omitting timeout, next to a volume that
\* omits readOnly.
C9_Witness ==
    /\ Built
    /\ \E k \in DOMAIN buffer.doc.services :
          /\ buffer.doc.services[k].check.interval.present
          /\ buffer.doc.services[k].check.interval.v = "30s"
          /\ ~buffer.doc.services[k].check.timeout.present
          /\ HasAttr(ChildrenOf(TheGroup, "service")[k].blocks[1], "timeout", HStr("3s"))
    /\ \E k \in DOMAIN buffer.doc.volumes : ~buffer.doc.volumes[k].readOnly.present

\* C10: a task block is labelled with the container's name and has as
\* children one config block (image, then ports), one volume_mount block
\* per mount in input order with that mount's volume and mountpoint, one
\* restart block and one env block, in this order.
C10_TaskLayout ==
    Built =>
        \A k \in DOMAIN job.containers :
            LET c == job.containers[k]
                t == TaskOf(k)
            IN /\ t.labels = <<c.name>>
               /\ Types(t.blocks) =
                      <<"config">> \o Repeat("volume_mount", Len(c.mounts))
                          \o <<"restart", "env">>
               /\ t.blocks[1].attrs =
                      <<Attribute("image", HStr(c.image)),
                        Attribute("ports", HList(c.ports))>>
               /\ \A n \in DOMAIN c.mounts :
                      t.blocks[1 + n].attrs =
                          <<Attribute("volume", HStr(c.mounts[n].volume)),
                            Attribute("destination", HStr(c.mounts[n].mountpoint))>>

\* A task with two different mounts and two different port references.
C10_Witness ==
    /\ Built
    /\ Len(job.containers) = 1
    /\ Len(job.containers[1].mounts) = 2
    /\ job.containers[1].mounts[1] # job.containers[1].mounts[2]
    /\ Len(job.containers[1].ports) = 2
    /\ job.containers[1].ports[1] # job.containers[1].ports[2]
    /\ Len(TaskOf(1).blocks) = 5

\* A task without ports, mounts and env entries keeps its three fixed blocks.
C10_WitnessEmpty ==
    /\ Built
    /\ Len(job.containers) = 1
    /\ job.containers[1].ports = <<>>
    /\ job.containers[1].mounts = <<>>
    /\ job.containers[1].env = <<>>
    /\ Types(TaskOf(1).blocks) = <<"config", "restart", "env">>


====
